---- MODULE Spec2Model ----
(***************************************************************************)
(* Model of server.py: a static-file development server whose GET handler  *)
(* (SlugRewriteHandler.do_GET) rewrites /product/<slug> and                 *)
(* /products/<slug> to /product.html, answers 404 for id-addressed and     *)
(* bare template URLs, and hands every other request to the inherited      *)
(* SimpleHTTPRequestHandler.  main() picks the port from the command line  *)
(* and binds the listener.                                                 *)
(*                                                                         *)
(* Python strings are modelled as sequences of one-character strings so    *)
(* that prefix tests, substring tests, splitting and URL parsing are       *)
(* computed character by character, as the interpreter does.               *)
(***************************************************************************)
EXTENDS Integers, Sequences, FiniteSets, TLC

(***************************************************************************)
(* Bounds of the model                                                     *)
(***************************************************************************)
\* number of requests whose handling is kept in the history
MaxRequests == 2
\* number of command-line arguments after the script name
MaxArgs == 2

(***************************************************************************)
(* String literals used by the program and by the request inputs           *)
(***************************************************************************)
sProductSlash == <<"/","p","r","o","d","u","c","t","/">>
sProductsSlash == <<"/","p","r","o","d","u","c","t","s","/">>
sProductHtml == <<"/","p","r","o","d","u","c","t",".","h","t","m","l">>
sProduct == <<"p","r","o","d","u","c","t">>
sProducts == <<"p","r","o","d","u","c","t","s">>
sId == <<"i","d">>
sDashPort == <<"-","-","p","o","r","t">>
sScript == <<"s","e","r","v","e","r",".","p","y">>

\* request paths
pSlug == <<"/","p","r","o","d","u","c","t","/","x">>
pSlugs == <<"/","p","r","o","d","u","c","t","s","/","x","/","y">>
pEmptySlug == <<"/","p","r","o","d","u","c","t","/">>
pEmptySlugs == <<"/","p","r","o","d","u","c","t","s","/">>
pTemplate == <<"/","p","r","o","d","u","c","t",".","h","t","m","l">>
pOther == <<"/","o","t","h","e","r",".","h","t","m","l">>
pInfix == <<"/","a","-","p","r","o","d","u","c","t","/","x">>

\* request queries (the text after the first "?")
qNone == <<>>
qId == <<"i","d","=","5">>
qIdBlank == <<"i","d","=">>
qFoo == <<"f","o","o","=","b","a","r">>
qFooId == <<"a","=","1","&","i","d","=","2">>
qIdEnc == <<"%","6","9","d","=","5">>
qEnc == <<"b","=","%","3","D","&","a","=","1">>

\* command-line words
aPort == <<"8","0","8","0">>
aWord == <<"a","b","c">>
aBig == <<"7","0","0","0","0">>
aNeg == <<"-","1">>
aZero == <<"0">>
aMixed == <<"8","0","a">>

(***************************************************************************)
(* Python string primitives                                                *)
(***************************************************************************)
\* s[i:] with a 1-based first index
From(s, i) == SubSeq(s, i, Len(s))

\* str.find(c) for a one-character c, searching from index i;
\* 1-based, 0 when c does not occur
FindFrom(s, c, i) ==
  IF \E k \in i..Len(s) : s[k] = c
  THEN CHOOSE k \in i..Len(s) : s[k] = c /\ \A j \in i..(k-1) : s[j] # c
  ELSE 0

Find(s, c) == FindFrom(s, c, 1)

\* str.rfind(c): the last index of c, 0 when c does not occur
RFind(s, c) ==
  IF \E k \in 1..Len(s) : s[k] = c
  THEN CHOOSE k \in 1..Len(s) : s[k] = c /\ \A j \in (k+1)..Len(s) : s[j] # c
  ELSE 0

\* str.startswith(p)
StartsWith(s, p) == Len(s) >= Len(p) /\ SubSeq(s, 1, Len(p)) = p

\* `sub in s` for a non-empty sub
Contains(s, sub) ==
  \E i \in 1..(Len(s) - Len(sub) + 1) : SubSeq(s, i, i + Len(sub) - 1) = sub

\* str.split(sep, maxsplit) for a one-character sep; maxsplit = -1 is "no limit"
RECURSIVE Split(_, _, _)
Split(s, sep, maxsplit) ==
  LET i == Find(s, sep)
  IN  IF maxsplit = 0 \/ i = 0
      THEN <<s>>
      ELSE <<SubSeq(s, 1, i - 1)>> \o Split(From(s, i + 1), sep, maxsplit - 1)

\* str.replace(a, b) for one-character a and b
Replace(s, a, b) == [k \in 1..Len(s) |-> IF s[k] = a THEN b ELSE s[k]]

Digits == {"0","1","2","3","4","5","6","7","8","9"}

DigitVal(c) ==
  CASE c = "0" -> 0 [] c = "1" -> 1 [] c = "2" -> 2 [] c = "3" -> 3
    [] c = "4" -> 4 [] c = "5" -> 5 [] c = "6" -> 6 [] c = "7" -> 7
    [] c = "8" -> 8 [] c = "9" -> 9

\* str.isdigit(): non-empty and every character a digit
IsDigit(s) == Len(s) > 0 /\ \A k \in 1..Len(s) : s[k] \in Digits

RECURSIVE DecimalValue(_)
DecimalValue(s) ==
  IF Len(s) = 0 THEN 0
  ELSE 10 * DecimalValue(SubSeq(s, 1, Len(s) - 1)) + DigitVal(s[Len(s)])

\* int(s): an optional sign followed by decimal digits; anything else raises
\* ValueError.  (Surrounding blanks and "_" separators, which int() also
\* accepts, are outside the alphabet of the command-line words used here.)
ParseInt(s) ==
  LET signed == Len(s) > 0 /\ s[1] \in {"-", "+"}
      body   == IF signed THEN Tail(s) ELSE s
  IN  IF IsDigit(body)
      THEN [ok |-> TRUE,
            val |-> IF signed /\ s[1] = "-" THEN 0 - DecimalValue(body)
                    ELSE DecimalValue(body)]
      ELSE [ok |-> FALSE, val |-> 0]

(***************************************************************************)
(* urllib.parse                                                            *)
(***************************************************************************)
HexDigits == Digits \cup {"a","b","c","d","e","f","A","B","C","D","E","F"}

HexVal(c) ==
  CASE c \in Digits -> DigitVal(c)
    [] c \in {"a","A"} -> 10 [] c \in {"b","B"} -> 11 [] c \in {"c","C"} -> 12
    [] c \in {"d","D"} -> 13 [] c \in {"e","E"} -> 14 [] c \in {"f","F"} -> 15

\* chr(code) for the codes of the characters the model's alphabet escapes;
\* every other code is one stand-in character that occurs in no literal
Chr(code) ==
  CASE code = 105 -> "i" [] code = 100 -> "d" [] code = 61 -> "="
    [] code = 38 -> "&" [] code = 37 -> "%" [] code = 32 -> " "
    [] OTHER -> "?x"

\* urllib.parse.unquote: %XX with two hex digits is decoded, any other "%"
\* is kept as it stands
RECURSIVE Unquote(_)
Unquote(s) ==
  IF Len(s) = 0 THEN <<>>
  ELSE IF s[1] = "%" /\ Len(s) >= 3 /\ s[2] \in HexDigits /\ s[3] \in HexDigits
       THEN <<Chr(16 * HexVal(s[2]) + HexVal(s[3]))>> \o Unquote(From(s, 4))
       ELSE <<s[1]>> \o Unquote(Tail(s))

\* urllib.parse._splitparams: ";params" is cut from the last path segment
SplitParams(url) ==
  LET i == IF Find(url, "/") # 0
           THEN FindFrom(url, ";", RFind(url, "/"))
           ELSE Find(url, ";")
  IN  IF i = 0 THEN <<url, <<>>>>
      ELSE <<SubSeq(url, 1, i - 1), From(url, i + 1)>>

\* urllib.parse.urlparse of a request target.  A request target begins with
\* one "/", so the scheme and the network location are empty; the fragment is
\* cut at the first "#", then the query at the first "?", then the params.
urlparse(url) ==
  LET h        == Find(url, "#")
      noFrag   == IF h = 0 THEN url ELSE SubSeq(url, 1, h - 1)
      fragment == IF h = 0 THEN <<>> ELSE From(url, h + 1)
      q        == Find(noFrag, "?")
      noQuery  == IF q = 0 THEN noFrag ELSE SubSeq(noFrag, 1, q - 1)
      query    == IF q = 0 THEN <<>> ELSE From(noFrag, q + 1)
      pp       == SplitParams(noQuery)
  IN  [path |-> pp[1], params |-> pp[2], query |-> query, fragment |-> fragment]

\* the (name, value) pair of one "&"-separated field, or no pair at all
QsField(name_value, keep_blank_values) ==
  LET nv == Split(name_value, "=", 1)
      nv2 == IF Len(nv) = 2 THEN nv ELSE <<nv[1], <<>>>>
  IN  IF Len(name_value) = 0 THEN <<>>
      ELSE IF Len(nv) # 2 /\ ~keep_blank_values THEN <<>>
      ELSE IF Len(nv2[2]) > 0 \/ keep_blank_values
           THEN << <<Unquote(Replace(nv2[1], "+", " ")),
                     Unquote(Replace(nv2[2], "+", " "))>> >>
           ELSE <<>>

RECURSIVE QsFields(_, _)
QsFields(fields, keep_blank_values) ==
  IF Len(fields) = 0 THEN <<>>
  ELSE QsField(Head(fields), keep_blank_values)
         \o QsFields(Tail(fields), keep_blank_values)

\* urllib.parse.parse_qsl(qs, keep_blank_values)
parse_qsl(qs, keep_blank_values) ==
  QsFields(Split(qs, "&", -1), keep_blank_values)

\* the keys of the dict urllib.parse.parse_qs(qs) returns; blank values are
\* not kept (keep_blank_values defaults to False)
parse_qs(qs) ==
  LET pairs == parse_qsl(qs, FALSE)
  IN  {pairs[k][1] : k \in 1..Len(pairs)}

(***************************************************************************)
(* State                                                                   *)
(***************************************************************************)
VARIABLES
  phase,      \* position of main(): "start", "parsed", "serving", "crashed"
  argv,       \* sys.argv: the script name followed by the arguments
  PORT,       \* the module-level PORT
  warned,     \* "Invalid port number. Using default port 8000." was printed
  listening,  \* the port the listener is bound to, -1 while there is none
  crash,      \* the exception that ended main(), "none" otherwise
  cwd,        \* the working directory, the handlers' document root
  files,      \* URL paths of the regular files under the script directory
  log         \* the handler instances of the requests served so far

vars == <<phase, argv, PORT, warned, listening, crash, cwd, files, log>>

(***************************************************************************)
(* Inputs                                                                  *)
(***************************************************************************)
\* request target of a path and a query; no "?" is written for an empty query
Target(p, q) == p \o (IF Len(q) = 0 THEN <<>> ELSE <<"?">> \o q)

Paths == {pSlug, pSlugs, pEmptySlug, pEmptySlugs, pTemplate, pOther, pInfix}

Queries == {qNone, qId, qIdBlank, qFoo, qFooId, qIdEnc, qEnc}

\* targets that carry ";params", a "#fragment" or a "?" with nothing after it
ExtraTargets ==
  {pTemplate \o <<";","v">>, Target(pSlug, qFoo) \o <<"#","f">>, pTemplate \o <<"?">>}

GetTargets == {Target(p, q) : p \in Paths, q \in Queries} \cup ExtraTargets

OtherTargets == {Target(pSlug, qNone), Target(pSlugs, qFoo), Target(pTemplate, qNone),
                 Target(pTemplate, qId), Target(pOther, qNone)}

Requests ==
  {[command |-> "GET", target |-> t] : t \in GetTargets}
    \cup {[command |-> c, target |-> t] : c \in {"HEAD", "POST"}, t \in OtherTargets}

FileSets == {{}, {pTemplate, pOther}}

ArgTokens == {sDashPort, aPort, aWord, aBig, aNeg, aZero, aMixed, <<>>}

RECURSIVE ArgLists(_)
ArgLists(n) ==
  IF n = 0 THEN {<<>>}
  ELSE LET shorter == ArgLists(n - 1)
       IN  shorter \cup {Append(l, a) : l \in {x \in shorter : Len(x) = n - 1},
                                        a \in ArgTokens}

\* every command line of at most MaxArgs arguments
ArgvAll == {<<sScript>> \o l : l \in ArgLists(MaxArgs)}

\* the command lines under which request handling is explored
ArgvServe == {<<sScript>>, <<sScript, sDashPort, aBig>>}

\* ports the operating system may hand out for port 0
EphemeralPorts == {49152, 49153}

(***************************************************************************)
(* http.server: the inherited request handler                              *)
(***************************************************************************)
\* the handler instance once parse_request has read the request line
NewHandler(command, target) ==
  [command |-> command, target |-> target, path |-> target,
   ret |-> 0, served |-> <<>>, responses |-> <<>>]

\* BaseHTTPRequestHandler.send_error
send_error(self, code, message) ==
  [self EXCEPT !.responses =
     Append(@, [status |-> code, reason |-> message, file |-> <<>>, content |-> FALSE])]

\* SimpleHTTPRequestHandler.translate_path: the query and the fragment are
\* dropped and the rest is unquoted.  (No modelled path has "." or ".."
\* segments, so normalisation leaves it as it is.)
translate_path(path) == Unquote(Split(Split(path, "?", 1)[1], "#", 1)[1])

\* SimpleHTTPRequestHandler.send_head followed, for GET, by the copy of the
\* file: 200 with the file self.path names under the document root, or
\* 404 "File not found"
send_head(self, copy) ==
  LET f == translate_path(self.path)
  IN  IF f \in files
      THEN [self EXCEPT !.responses =
              Append(@, [status |-> 200, reason |-> "OK", file |-> f, content |-> copy])]
      ELSE send_error(self, 404, "File not found")

\* SimpleHTTPRequestHandler.do_GET, the static responder: `served` records the
\* self.path it is entered with
Simple_do_GET(self) == send_head([self EXCEPT !.served = Append(@, self.path)], TRUE)

\* SimpleHTTPRequestHandler.do_HEAD
Simple_do_HEAD(self) == send_head([self EXCEPT !.served = Append(@, self.path)], FALSE)

(***************************************************************************)
(* SlugRewriteHandler.do_GET                                               *)
(* `ret` is the source line of the return statement that ended do_GET,     *)
(* 0 while no return has been executed.                                    *)
(***************************************************************************)
\* RewriteSlug with the query decoded before it is attached again
RewriteSlugDecoded(self, parsed_path) ==
  LET path       == parsed_path.path
      slug_match == Split(path, "/", 2)
  IN  IF (StartsWith(path, sProductSlash) \/ StartsWith(path, sProductsSlash))
         /\ Len(slug_match) >= 3
      THEN [Simple_do_GET([self EXCEPT !.path =
                sProductHtml \o (IF Len(parsed_path.query) > 0
                                 THEN <<"?">> \o Unquote(parsed_path.query) ELSE <<>>)])
              EXCEPT !.ret = 36]
      ELSE self

\* lines 28-36: /product/slug or /products/slug is rewritten to product.html
RewriteSlug(self, parsed_path) ==
  LET path       == parsed_path.path
      slug_match == Split(path, "/", 2)
  IN  IF (StartsWith(path, sProductSlash) \/ StartsWith(path, sProductsSlash))
         /\ Len(slug_match) >= 3
      THEN [Simple_do_GET([self EXCEPT !.path =
                sProductHtml \o (IF Len(parsed_path.query) > 0
                                 THEN <<"?">> \o parsed_path.query ELSE <<>>)])
              EXCEPT !.ret = 36]
      ELSE self

\* BlockId without the return after send_error
BlockIdNoReturn(self, parsed_path) ==
  LET path         == parsed_path.path
      query_params == parse_qs(parsed_path.query)
  IN  IF sId \in query_params
         /\ (Contains(path, sProduct) \/ Contains(path, sProducts))
      THEN send_error(self, 404, "Product not found")
      ELSE self

\* lines 38-43: ID-based URLs are answered 404
BlockId(self, parsed_path) ==
  LET path         == parsed_path.path
      query_params == parse_qs(parsed_path.query)
  IN  IF sId \in query_params
         /\ (Contains(path, sProduct) \/ Contains(path, sProducts))
      THEN [send_error(self, 404, "Product not found") EXCEPT !.ret = 43]
      ELSE self

\* BlockBare comparing the path with "product.html", the leading "/" left out
BlockBareNoSlash(self, parsed_path) ==
  IF parsed_path.path = Tail(sProductHtml) /\ Len(parsed_path.query) = 0
  THEN [send_error(self, 404, "Product not found") EXCEPT !.ret = 48]
  ELSE self

\* lines 45-48: product.html without a query is answered 404
BlockBare(self, parsed_path) ==
  IF parsed_path.path = sProductHtml /\ Len(parsed_path.query) = 0
  THEN [send_error(self, 404, "Product not found") EXCEPT !.ret = 48]
  ELSE self

\* lines 50-51: every other request is served by the inherited do_GET
ServeDefault(self) == [Simple_do_GET(self) EXCEPT !.ret = 51]

\* do_GET with the ID block tested before the slug rewrite
do_GET_IdFirst(self) ==
  LET parsed_path == urlparse(self.path)
      s1 == BlockId(self, parsed_path)
      s2 == IF s1.ret # 0 THEN s1 ELSE RewriteSlug(s1, parsed_path)
      s3 == IF s2.ret # 0 THEN s2 ELSE BlockBare(s2, parsed_path)
  IN  IF s3.ret # 0 THEN s3 ELSE ServeDefault(s3)

\* do_GET with the rewritten path kept on the class instead of the instance:
\* a request that follows a rewrite starts from the rewritten path
do_GET_SharedPath(self) ==
  LET shared == IF Len(log) > 0 /\ log[Len(log)].ret = 36
                THEN [self EXCEPT !.path = log[Len(log)].path]
                ELSE self
      parsed_path == urlparse(shared.path)
      s1 == RewriteSlug(shared, parsed_path)
      s2 == IF s1.ret # 0 THEN s1 ELSE BlockId(s1, parsed_path)
      s3 == IF s2.ret # 0 THEN s2 ELSE BlockBare(s2, parsed_path)
  IN  IF s3.ret # 0 THEN s3 ELSE ServeDefault(s3)

do_GET(self) ==
  LET parsed_path == urlparse(self.path)
      s1 == RewriteSlug(self, parsed_path)
      s2 == IF s1.ret # 0 THEN s1 ELSE BlockId(s1, parsed_path)
      s3 == IF s2.ret # 0 THEN s2 ELSE BlockBare(s2, parsed_path)
  IN  IF s3.ret # 0 THEN s3 ELSE ServeDefault(s3)

\* handle_one_request of a class that also routes HEAD through do_GET
handle_one_request_HeadAsGet(self) ==
  CASE self.command \in {"GET", "HEAD"} -> do_GET(self)
    [] OTHER -> send_error(self, 501, "Unsupported method")

\* BaseHTTPRequestHandler.handle_one_request: do_<command> is called when the
\* class has it; SlugRewriteHandler has its own do_GET and inherits do_HEAD
handle_one_request(self) ==
  CASE self.command = "GET"  -> do_GET(self)
    [] self.command = "HEAD" -> Simple_do_HEAD(self)
    [] OTHER -> send_error(self, 501, "Unsupported method")

(***************************************************************************)
(* main()                                                                  *)
(***************************************************************************)
\* lines 59-69: the port the command line selects and whether the warning
\* is printed; sys.argv[k] is args[k + 1]
SelectPort(args) ==
  IF Len(args) > 1
  THEN IF \E k \in 1..Len(args) : args[k] = sDashPort
       THEN LET port_index == CHOOSE k \in 1..Len(args) :
                                args[k] = sDashPort
                                /\ \A j \in 1..(k - 1) : args[j] # sDashPort
            IN  IF port_index + 1 <= Len(args) /\ ParseInt(args[port_index + 1]).ok
                THEN [port |-> ParseInt(args[port_index + 1]).val, warned |-> FALSE]
                ELSE [port |-> 8000, warned |-> TRUE]
       ELSE IF IsDigit(args[2])
            THEN [port |-> DecimalValue(args[2]), warned |-> FALSE]
            ELSE [port |-> 8000, warned |-> FALSE]
  ELSE [port |-> 8000, warned |-> FALSE]

\* lines 55-69: change to the script directory and read the port
Configure ==
  /\ phase = "start"
  /\ phase' = "parsed"
  /\ cwd' = "script_dir"
  /\ PORT' = SelectPort(argv).port
  /\ warned' = SelectPort(argv).warned
  /\ UNCHANGED <<argv, listening, crash, files, log>>

\* line 73: TCPServer(("", PORT), Handler) binds and listens; port 0 asks the
\* operating system for a free port
Listen ==
  /\ phase = "parsed"
  /\ PORT \in 0..65535
  /\ phase' = "serving"
  /\ \E p \in (IF PORT = 0 THEN EphemeralPorts ELSE {PORT}) : listening' = p
  /\ UNCHANGED <<argv, PORT, warned, crash, cwd, files, log>>

\* line 73: bind() raises OverflowError for a port outside 0-65535
ListenOverflow ==
  /\ phase = "parsed"
  /\ PORT \notin 0..65535
  /\ phase' = "crashed"
  /\ crash' = "OverflowError"
  /\ UNCHANGED <<argv, PORT, warned, listening, cwd, files, log>>

\* line 73: bind() raises OSError when the port is taken or not permitted
ListenRefused ==
  /\ phase = "parsed"
  /\ PORT \in 0..65535
  /\ phase' = "crashed"
  /\ crash' = "OSError"
  /\ UNCHANGED <<argv, PORT, warned, listening, cwd, files, log>>

\* line 93: serve_forever handles one request with a new handler instance
HandleRequest(r) ==
  /\ phase = "serving"
  /\ Len(log) < MaxRequests
  /\ log' = Append(log, handle_one_request(NewHandler(r.command, r.target)))
  /\ UNCHANGED <<phase, argv, PORT, warned, listening, crash, cwd, files>>

InitCommon ==
  /\ phase = "start"
  /\ PORT = 8000
  /\ warned = FALSE
  /\ listening = -1
  /\ crash = "none"
  /\ cwd = "launch_dir"
  /\ files \in FileSets
  /\ log = <<>>

Init == InitCommon /\ argv \in ArgvServe

Next ==
  \/ Configure
  \/ Listen
  \/ ListenOverflow
  \/ ListenRefused
  \/ \E r \in Requests : HandleRequest(r)

Spec == Init /\ [][Next]_vars

\* start-up alone, over every command line
InitMain == InitCommon /\ argv \in ArgvAll

NextMain ==
  \/ Configure
  \/ Listen
  \/ ListenOverflow
  \/ ListenRefused

SpecMain == InitMain /\ [][NextMain]_vars

(***************************************************************************)
(* Vocabulary of the properties                                            *)
(***************************************************************************)
\* the path is /product/ or /products/ followed by a non-empty remainder
NonEmptySlug(p) ==
  \E pre \in {sProductSlash, sProductsSlash} : StartsWith(p, pre) /\ Len(p) > Len(pre)

\* the query has a field whose key is `id`, whatever its value
HasIdKey(q) ==
  LET pairs == parse_qsl(q, TRUE)
  IN  \E k \in 1..Len(pairs) : pairs[k][1] = sId

\* the handler sent the gatekeeper's 404
SentProductNotFound(h) ==
  \E k \in 1..Len(h.responses) :
    h.responses[k].status = 404 /\ h.responses[k].reason = "Product not found"

ProductNotFound ==
  [status |-> 404, reason |-> "Product not found", file |-> <<>>, content |-> FALSE]

\* the handled GET requests of the history
Gets == {i \in 1..Len(log) : log[i].command = "GET"}

\* every path and query of the inputs with the request target they make
Cases == {[p |-> p, q |-> q, target |-> Target(p, q)] : p \in Paths, q \in Queries}

\* C1: a GET of /product/<non-empty> or /products/<non-empty>, with any query
\* Q, is rewritten: the static responder is entered once with /product.html
\* and Q ("?" only for a non-empty Q), and no gatekeeper 404 is sent, also
\* when Q has the key id.
C1_SlugRewrite ==
  \A i \in Gets, c \in Cases :
    (log[i].target = c.target /\ NonEmptySlug(c.p)) =>
      /\ log[i].ret = 36
      /\ log[i].served = <<Target(sProductHtml, c.q)>>
      /\ ~SentProductNotFound(log[i])

C1_Witness ==
  \E i \in Gets :
    /\ log[i].target = Target(pSlug, qId)
    /\ log[i].ret = 36
    /\ log[i].served = <<Target(sProductHtml, qId)>>

\* C2: a GET of exactly /product/, with any query, is never rewritten; with
\* an empty query it is passed through with the path /product/ unchanged, and
\* with a query that has the key id it is rejected with 404.
C2_EmptySlugNotRewritten ==
  \A i \in Gets, q \in Queries :
    log[i].target = Target(pEmptySlug, q) =>
      /\ log[i].ret # 36
      /\ (q = qNone => (log[i].ret = 51 /\ log[i].served = <<pEmptySlug>>))
      /\ (q = qId => (log[i].ret = 43 /\ log[i].responses = <<ProductNotFound>>))

\* C3: a GET that rule 1 does not rewrite, whose path contains "product" and
\* whose query has the key id with any value, is answered 404 "Product not
\* found" without entering the static responder.
C3_IdBlock ==
  \A i \in Gets, c \in Cases :
    (log[i].target = c.target /\ log[i].ret # 36
       /\ Contains(c.p, sProduct) /\ HasIdKey(c.q)) =>
      /\ log[i].ret = 43
      /\ log[i].responses = <<ProductNotFound>>
      /\ log[i].served = <<>>

\* C4: a GET of exactly /product.html with an empty query is answered 404
\* "Product not found" and the static responder is not entered, whether or
\* not the file exists.
C4_BareBlock ==
  \A i \in Gets :
    log[i].target \in {pTemplate, pTemplate \o <<"?">>} =>
      /\ log[i].ret = 48
      /\ log[i].responses = <<ProductNotFound>>
      /\ log[i].served = <<>>

C4_Witness ==
  \E i \in Gets :
    /\ log[i].target = pTemplate
    /\ pTemplate \in files
    /\ log[i].responses = <<ProductNotFound>>

\* C5: a GET matched by none of rules 1-3 (no non-empty slug; not both an id
\* key and "product" in the path; not /product.html with an empty query) is
\* passed to the static responder with the original target, unmodified, and
\* gets no gatekeeper 404.
C5_PassThroughUnchanged ==
  \A i \in Gets, c \in Cases :
    (log[i].target = c.target
       /\ ~NonEmptySlug(c.p)
       /\ ~(HasIdKey(c.q) /\ Contains(c.p, sProduct))
       /\ ~(c.p = sProductHtml /\ Len(c.q) = 0)) =>
      /\ log[i].ret = 51
      /\ log[i].path = log[i].target
      /\ log[i].served = <<log[i].target>>
      /\ ~SentProductNotFound(log[i])

\* C6: for a non-empty slug and a non-empty query Q without an id key, the
\* GET of the slug URL with Q and the GET of /product.html?Q enter the static
\* responder with the same target, /product.html?Q with Q verbatim, and get
\* the same response.
C6_SlugEquivalent ==
  \A i \in Gets, c \in Cases :
    (log[i].target = c.target
       /\ NonEmptySlug(c.p) /\ Len(c.q) > 0 /\ ~HasIdKey(c.q)) =>
      /\ log[i].served = <<Target(sProductHtml, c.q)>>
      /\ \A j \in Gets :
           log[j].target = Target(sProductHtml, c.q) =>
             /\ log[j].served = log[i].served
             /\ log[j].responses = log[i].responses

C6_Witness ==
  \E i \in Gets, j \in Gets :
    /\ log[i].target = Target(pSlugs, qEnc)
    /\ log[j].target = Target(pTemplate, qEnc)
    /\ log[i].responses = log[j].responses
    /\ Len(log[i].responses) = 1
    /\ log[i].responses[1].status = 200

\* C7: a request whose method is not GET is neither rewritten nor blocked by
\* the gatekeeper: do_GET is not run, self.path stays the request target, no
\* "Product not found" is sent; HEAD enters the inherited handler with the
\* target unchanged and any other method gets the base class's 501.
C7_OnlyGet ==
  \A i \in 1..Len(log) :
    log[i].command # "GET" =>
      /\ log[i].ret = 0
      /\ log[i].path = log[i].target
      /\ ~SentProductNotFound(log[i])
      /\ (log[i].command = "HEAD" => log[i].served = <<log[i].target>>)
      /\ (log[i].command # "HEAD" =>
            (log[i].served = <<>> /\ Len(log[i].responses) = 1
               /\ log[i].responses[1].status = 501))

C7_Witness ==
  \E i, j \in 1..Len(log) :
    /\ log[i].command = "HEAD"
    /\ log[i].target = pTemplate
    /\ log[i].responses[1].status = 200
    /\ log[j].command = "POST"
    /\ log[j].target = Target(pTemplate, qId)

\* the first index of --port on the command line, 0 when it is absent
PortFlag ==
  IF \E k \in 1..Len(argv) : argv[k] = sDashPort
  THEN CHOOSE k \in 1..Len(argv) :
         argv[k] = sDashPort /\ \A j \in 1..(k - 1) : argv[j] # sDashPort
  ELSE 0

\* the word is a number a listener can be bound to
UsablePort(w) == ParseInt(w).ok /\ ParseInt(w).val \in 0..65535

\* C8: once start-up has run, a missing or unusable word after --port has
\* led to the warning, port 8000 and a listener on 8000, never to a failed
\* process; and --port N, or N as the only argument, has led to a listener
\* on N.  (A port the operating system refuses is not counted as a failure
\* of port selection.)
C8_PortSelection ==
  (phase \in {"serving", "crashed"} /\ crash # "OSError") =>
    /\ (PortFlag > 0
          /\ (PortFlag + 1 > Len(argv) \/ ~UsablePort(argv[PortFlag + 1]))) =>
         (warned /\ PORT = 8000 /\ phase = "serving" /\ listening = 8000)
    /\ (PortFlag > 0 /\ PortFlag + 1 <= Len(argv)
          /\ ParseInt(argv[PortFlag + 1]).ok
          /\ ParseInt(argv[PortFlag + 1]).val \in 1..65535) =>
         (phase = "serving" /\ listening = ParseInt(argv[PortFlag + 1]).val)
    /\ (Len(argv) = 2 /\ IsDigit(argv[2]) /\ DecimalValue(argv[2]) \in 1..65535) =>
         (phase = "serving" /\ listening = DecimalValue(argv[2]))

\* C9: every handled GET ended at exactly one return of do_GET and sent
\* exactly one response; the static responder was entered at most once; a
\* rejected request sent the 404 and did not enter the responder; a rewritten
\* or passed-through request entered it once and got no gatekeeper 404.
C9_OneOutcome ==
  \A i \in Gets :
    /\ log[i].ret \in {36, 43, 48, 51}
    /\ Len(log[i].served) <= 1
    /\ Len(log[i].responses) = 1
    /\ (log[i].ret \in {43, 48} =>
          (log[i].served = <<>> /\ log[i].responses = <<ProductNotFound>>))
    /\ (log[i].ret \in {36, 51} =>
          (Len(log[i].served) = 1 /\ ~SentProductNotFound(log[i])))

C9_Witness ==
  \E i \in Gets, j \in Gets :
    /\ log[i].target = Target(pTemplate, qId)
    /\ log[i].ret = 43
    /\ log[j].target = pSlug
    /\ log[j].ret = 36
    /\ log[j].served = <<sProductHtml>>

====
